---- MODULE Spec2Model ----
(***************************************************************************)
(* Model of the validator control-plane fragment:                          *)
(*   - the synthetic query scheduler                                       *)
(*     (validator/control_node/src/cycle/schedule_synthetic_queries.py),   *)
(*   - the node registry data access layer (validator/db/src/sql/nodes.py).*)
(*                                                                         *)
(* Time is counted in whole seconds and the scoring period is a few        *)
(* seconds long; the request interval                                      *)
(* scoring_period_time / (total_requests + 1) is rounded down to whole     *)
(* seconds.                                                                *)
(***************************************************************************)
EXTENDS Integers, Sequences, FiniteSets, TLC

\* ------------------------------------------------------------ bounds ----
\* Latest clock value at which a scheduler instance may start its cycle.
MaxStartTime == 1
\* Longest initial content of the shared work queue in the purge model.
MaxQueueLen == 3
\* Number of items other processes push to / pop from the work queue.
MaxPushes == 1
MaxPops == 1
\* Sync cycles a registry writer runs.
MaxSyncs == 3
\* Calls of update_our_vali_node_in_db.
MaxValiUpdates == 2
\* ccst.SCORING_PERIOD_TIME, in seconds: the length the model gives the period.
SCORING_PERIOD_TIME == 4

\* ------------------------------------------------- program constants ----
\* sleep_chunk = 2
sleep_chunk == 2
\* max_len=100 of the enqueue call
max_len == 100
\* if i % 100 == 0
report_every == 100
\* await asyncio.sleep(10)
final_sleep == 10

Instances == {"s1", "s2"}
\* Instances are interchangeable: they start their cycles in this order.
StartOrder == << "s1", "s2" >>

\* gcst.SYNTHETIC and the other values of an item's query_type; MISSING is an
\* item without the field (json.loads(item).get("query_type") is None)
SYNTHETIC == "synthetic"
ORGANIC == "organic"
MISSING == "none"
QueryTypes == {SYNTHETIC, ORGANIC, MISSING}

\* tcfg.get_task_configs(): the task configuration registry.  "speech" is
\* registered but not enabled; contenders may also name a task ("legacy")
\* that is not registered at all.
task_configs ==
    [ chat   |-> [enabled |-> TRUE,  volume_to_requests_conversion |-> 10],
      image  |-> [enabled |-> TRUE,  volume_to_requests_conversion |-> 7],
      speech |-> [enabled |-> FALSE, volume_to_requests_conversion |-> 10] ]

Tasks == {"chat", "image", "speech", "legacy"}

\* putils.load_contenders: the contenders of the relational store.
Contender(t, c) == [task |-> t, capacity_to_score |-> c]

\* One scheduled task (chat, 3 requests); image gets 0 requests, speech is
\* disabled, legacy is unregistered.
SharedContenders ==
    << Contender("chat", 10), Contender("image", 5), Contender("chat", 25),
       Contender("speech", 30), Contender("legacy", 30) >>

VARIABLES
    clock,            \* time.time()
    redis_remaining,  \* task_synthetics_info:{task}:requests_remaining, <<>> = no key
    queue,            \* the list at rcst.QUERY_QUEUE_KEY
    contenders,       \* what _load_contenders returns
    config,           \* Config: scoring_period_time_multiplier
    pc,               \* where each scheduler instance is in its cycle
    start_time,
    task_schedules,   \* the heap list of each instance
    schedule,         \* the popped TaskScheduleInfo, <<>> when none
    time_to_sleep,
    wake,             \* clock value at which the pending asyncio.sleep returns
    latest_remaining_requests,
    i,                \* loop iteration count
    all_items,        \* lrange result of the purge
    init_pos,         \* position of the counter initialisation loop
    issued,           \* history: jobs enqueued per instance and task
    issued_late,      \* history: jobs enqueued with the period already elapsed
    queue0,           \* history: the work queue at the start
    pushed,           \* history: items other producers pushed
    popped,           \* history: items the consumer popped
    nodes,            \* the live table dcst.NODES_TABLE, rows in storage order
    nodes_history,    \* dcst.NODES_HISTORY_TABLE
    db_time,          \* the store's clock, the default of created_at
    sync_pc,          \* where each registry writer is in its sync cycle
    syncs,            \* sync cycles each writer has begun
    inserted,         \* history: the batches insert_nodes inserted, as rows
    get_node_result,  \* what the last get_node call returned or raised
    our_vali,         \* the arguments of the last update_our_vali_node_in_db call
    vali_result,      \* what the last get_vali_ss58_address call returned
    stakes_result     \* what the last get_node_stakes call returned

sched_vars == << clock, redis_remaining, queue, contenders, config, pc,
                 start_time,                 task_schedules, schedule, time_to_sleep, wake,
                 latest_remaining_requests, i, all_items, init_pos, issued,
                 issued_late >>

queue_vars == << queue0, pushed, popped >>

vali_vars == << our_vali, vali_result, stakes_result >>

db_vars == << nodes, nodes_history, db_time, sync_pc, syncs, inserted, get_node_result,
              vali_vars >>

\* scoring_period_time = ccst.SCORING_PERIOD_TIME * config.scoring_period_time_multiplier
scoring_period_time == SCORING_PERIOD_TIME * config.scoring_period_time_multiplier

\* ------------------------------------------------------------- heapq ----
\* TaskScheduleInfo.__lt__
LtReversed(a, b) == a.next_schedule_time > b.next_schedule_time

Lt(a, b) == a.next_schedule_time < b.next_schedule_time

\* heapq._siftdown; positions are Python's (0-based)
RECURSIVE siftdown(_, _, _, _)
siftdown(heap, startpos, pos, newitem) ==
    IF pos > startpos
    THEN LET parentpos == (pos - 1) \div 2
             parent == heap[parentpos + 1]
         IN  IF Lt(newitem, parent)
             THEN siftdown([heap EXCEPT ![pos + 1] = parent], startpos, parentpos, newitem)
             ELSE [heap EXCEPT ![pos + 1] = newitem]
    ELSE [heap EXCEPT ![pos + 1] = newitem]

\* heapq._siftup
RECURSIVE siftup(_, _, _, _)
siftup(heap, startpos, pos, newitem) ==
    LET endpos == Len(heap)
        childpos == 2 * pos + 1
        rightpos == childpos + 1
        c == IF rightpos < endpos /\ ~Lt(heap[childpos + 1], heap[rightpos + 1])
             THEN rightpos ELSE childpos
    IN  IF childpos < endpos
        THEN siftup([heap EXCEPT ![pos + 1] = heap[c + 1]], startpos, c, newitem)
        ELSE siftdown([heap EXCEPT ![pos + 1] = newitem], startpos, pos, newitem)

heappush(heap, item) == siftdown(Append(heap, item), 0, Len(heap), item)

\* heapq.heappop: <<returned item, heap afterwards>>
heappop(heap) ==
    LET lastelt == heap[Len(heap)]
        rest == SubSeq(heap, 1, Len(heap) - 1)
    IN  IF rest # <<>>
        THEN << rest[1], siftup([rest EXCEPT ![1] = lastelt], 0, 0, lastelt) >>
        ELSE << lastelt, rest >>

RECURSIVE PushAll(_, _)
PushAll(heap, items) ==
    IF items = <<>> THEN heap ELSE PushAll(heappush(heap, Head(items)), Tail(items))

RECURSIVE PopAll(_)
PopAll(heap) ==
    IF heap = <<>> THEN <<>>
    ELSE LET r == heappop(heap) IN << r[1] >> \o PopAll(r[2])

\* ------------------------------------------------- volume computation ----
\* _group_contenders_by_task: task -> list of its contenders, registered tasks only
GroupTasks(cs) == { cs[k].task : k \in { j \in 1..Len(cs) : cs[j].task \in DOMAIN task_configs } }

\* dict order of task_groups: order of first appearance in the contender list
RECURSIVE GroupOrder(_, _)
GroupOrder(cs, seen) ==
    IF cs = <<>> THEN <<>>
    ELSE IF Head(cs).task \in DOMAIN task_configs /\ Head(cs).task \notin seen
         THEN << Head(cs).task >> \o GroupOrder(Tail(cs), seen \cup {Head(cs).task})
         ELSE GroupOrder(Tail(cs), seen)

RECURSIVE SumCapacity(_, _)
SumCapacity(cs, t) ==
    IF cs = <<>> THEN 0
    ELSE (IF Head(cs).task = t THEN Head(cs).capacity_to_score ELSE 0) + SumCapacity(Tail(cs), t)

\* tcfg.get_enabled_task_config
get_enabled_task_config(t) ==
    IF t \in DOMAIN task_configs /\ task_configs[t].enabled THEN << task_configs[t] >> ELSE <<>>

\* _calculate_task_requests
calculate_task_requests_rounded_up(t, cs) ==
    LET task_config == get_enabled_task_config(t)
    IN  IF task_config = <<>> THEN 0
        ELSE (SumCapacity(cs, t) * config.scoring_period_time_multiplier
                  + task_config[1].volume_to_requests_conversion - 1)
                 \div task_config[1].volume_to_requests_conversion

calculate_task_requests(t, cs) ==
    LET task_config == get_enabled_task_config(t)
    IN  IF task_config = <<>> THEN 0
        ELSE (SumCapacity(cs, t) * config.scoring_period_time_multiplier)
                 \div task_config[1].volume_to_requests_conversion

Interval(total_requests) == scoring_period_time \div (total_requests + 1)

\* _initialize_task_schedules: jitter[t] stands for random.random() * interval
RECURSIVE InitSchedules(_, _, _, _)
InitSchedules(order, cs, now, jitter) ==
    IF order = <<>> THEN <<>>
    ELSE LET t == Head(order)
             total_requests == calculate_task_requests(t, cs)
             rest == InitSchedules(Tail(order), cs, now, jitter)
         IN  IF total_requests > 0
             THEN << [ task |-> t,
                       total_requests |-> total_requests,
                       interval |-> Interval(total_requests),
                       next_schedule_time |-> now + jitter[t],
                       remaining_requests |-> total_requests ] >> \o rest
             ELSE rest

ScheduledTasks(cs) == { t \in GroupTasks(cs) : calculate_task_requests(t, cs) > 0 }

\* random.random() * interval in whole seconds: below interval, 0 when the
\* interval is shorter than a second
Jitters(cs) ==
    { j \in [ScheduledTasks(cs) -> 0..(scoring_period_time - 1)] :
        \A t \in ScheduledTasks(cs) :
            j[t] = 0 \/ j[t] < Interval(calculate_task_requests(t, cs)) }

\* ------------------------------------------------------- shared store ----
\* _get_redis_remaining_requests
get_redis_remaining_requests(t) ==
    IF redis_remaining[t] # <<>> THEN redis_remaining[t][1] ELSE 0

\* a JSON job record of the work queue; id tells the records apart
Item(qt, t, id) == [query_type |-> qt, task |-> t, id |-> id]

\* putils.add_synthetic_query_to_queue
add_synthetic_query_to_queue(q, t, cap) ==
    IF Len(q) < cap THEN Append(q, Item(SYNTHETIC, t, 0)) ELSE q

\* the list comprehension of _clear_old_synthetic_queries
RECURSIVE OrganicOnly(_)
OrganicOnly(items) ==
    IF items = <<>> THEN <<>>
    ELSE (IF Head(items).query_type = ORGANIC THEN << Head(items) >> ELSE <<>>)
             \o OrganicOnly(Tail(items))

RECURSIVE NonSynthetic(_)
NonSynthetic(items) ==
    IF items = <<>> THEN <<>>
    ELSE (IF Head(items).query_type # SYNTHETIC THEN << Head(items) >> ELSE <<>>)
             \o NonSynthetic(Tail(items))

\* ---------------------------------------------------------- scheduler ----
\* The clock stops once a cycle begun at MaxStartTime has used up its period.
MaxClock == MaxStartTime + scoring_period_time

Min(a, b) == IF a < b THEN a ELSE b

NoTasks == [t \in Tasks |-> 0]

\* no scheduler instance has begun its cycle, the shared counters have no key
SchedulerIdle ==
    /\ clock = 0
    /\ redis_remaining = [t \in Tasks |-> <<>>]
    /\ pc = [n \in Instances |-> "idle"]
    /\ start_time = [n \in Instances |-> 0]
    /\ task_schedules = [n \in Instances |-> <<>>]
    /\ schedule = [n \in Instances |-> <<>>]
    /\ time_to_sleep = [n \in Instances |-> 0]
    /\ wake = [n \in Instances |-> 0]
    /\ latest_remaining_requests = [n \in Instances |-> 0]
    /\ i = [n \in Instances |-> 0]
    /\ all_items = [n \in Instances |-> <<>>]
    /\ init_pos = [n \in Instances |-> 0]
    /\ issued = [n \in Instances |-> NoTasks]
    /\ issued_late = [n \in Instances |-> 0]
    /\ pushed = {}
    /\ popped = {}

Writers == {"w1", "w2"}

NoResult == [outcome |-> "none yet"]

\* update_our_vali_node_in_db has not been called
NoCall == [calls |-> 0]

\* the registry tables are empty, no writer has begun a sync cycle
RegistryEmpty ==
    /\ nodes = <<>>
    /\ nodes_history = <<>>
    /\ db_time = 1
    /\ sync_pc = [w \in Writers |-> "idle"]
    /\ syncs = [w \in Writers |-> 0]
    /\ inserted = <<>>
    /\ get_node_result = NoResult
    /\ our_vali = NoCall
    /\ vali_result = NoResult
    /\ stakes_result = NoResult

InitSched ==
    /\ SchedulerIdle
    /\ RegistryEmpty
    /\ queue = <<>>
    /\ queue0 = queue
    /\ contenders = SharedContenders
    /\ config = [scoring_period_time_multiplier |-> 1]

\* The clock runs freely while any instance is at work; once every instance
\* rests it runs on until the last final sleep is over.
Tick ==
    /\ \/ clock < MaxClock
       \/ /\ \A n \in Instances : pc[n] \in {"idle", "breath", "done"}
          /\ \E n \in Instances : pc[n] = "breath" /\ clock < wake[n]
    /\ clock' = clock + 1
    /\ UNCHANGED << queue_vars, db_vars >>
    /\ UNCHANGED << redis_remaining, queue, contenders, config, pc, start_time, task_schedules,
                    schedule, time_to_sleep, wake, latest_remaining_requests, i,
                    all_items, init_pos, issued, issued_late >>

\* schedule_synthetics_until_done: start_time = time.time()
Start(n) ==
    /\ pc[n] = "idle"
    /\ clock <= MaxStartTime
    /\ \A k \in 2..Len(StartOrder) : StartOrder[k] = n => pc[StartOrder[k - 1]] # "idle"
    /\ start_time' = [start_time EXCEPT ![n] = clock]
    /\ pc' = [pc EXCEPT ![n] = "load"]
    /\ UNCHANGED << queue_vars, db_vars >>
    /\ UNCHANGED << clock, redis_remaining, queue, contenders, config, task_schedules, schedule,
                    time_to_sleep, wake, latest_remaining_requests, i, all_items,
                    init_pos, issued, issued_late >>

\* _load_contenders, _group_contenders_by_task, _initialize_task_schedules
Load(n) ==
    /\ pc[n] = "load"
    /\ \E jitter \in Jitters(contenders) :
           task_schedules' = [task_schedules EXCEPT ![n] =
               PushAll(<<>>, InitSchedules(GroupOrder(contenders, {}), contenders, clock, jitter))]
    /\ pc' = [pc EXCEPT ![n] = "clear_lrange"]
    /\ UNCHANGED << queue_vars, db_vars >>
    /\ UNCHANGED << clock, redis_remaining, queue, contenders, config, start_time, schedule,
                    time_to_sleep, wake, latest_remaining_requests, i, all_items,
                    init_pos, issued, issued_late >>

\* _clear_old_synthetic_queries: all_items = await redis_db.lrange(...)
ClearLrange(n) ==
    /\ pc[n] = "clear_lrange"
    /\ all_items' = [all_items EXCEPT ![n] = queue]
    /\ pc' = [pc EXCEPT ![n] = "clear_delete"]
    /\ UNCHANGED << queue_vars, db_vars >>
    /\ UNCHANGED << clock, redis_remaining, queue, contenders, config, start_time, task_schedules,
                    schedule, time_to_sleep, wake, latest_remaining_requests, i,
                    init_pos, issued, issued_late >>

\* where the cycle goes on after the purge: the counter initialisation loop
AfterClear(n) == IF task_schedules[n] = <<>> THEN "loop" ELSE "init_counters"

\* _clear_old_synthetic_queries: await redis_db.delete(...)
ClearDelete(n) ==
    /\ pc[n] = "clear_delete"
    /\ queue' = <<>>
    /\ IF NonSynthetic(all_items[n]) # <<>>
       THEN /\ pc' = [pc EXCEPT ![n] = "clear_rpush"]
            /\ UNCHANGED << all_items, init_pos >>
       ELSE /\ pc' = [pc EXCEPT ![n] = AfterClear(n)]
            /\ all_items' = [all_items EXCEPT ![n] = <<>>]
            /\ init_pos' = [init_pos EXCEPT ![n] = 1]
    /\ UNCHANGED << queue_vars, db_vars >>
    /\ UNCHANGED << clock, redis_remaining, contenders, config, start_time, task_schedules,
                    schedule, time_to_sleep, wake, latest_remaining_requests, i,
                    issued, issued_late >>

\* _clear_old_synthetic_queries: await redis_db.rpush(..., *non_synthetic_items)
ClearRpush(n) ==
    /\ pc[n] = "clear_rpush"
    /\ queue' = queue \o NonSynthetic(all_items[n])
    /\ pc' = [pc EXCEPT ![n] = AfterClear(n)]
    /\ all_items' = [all_items EXCEPT ![n] = <<>>]
    /\ init_pos' = [init_pos EXCEPT ![n] = 1]
    /\ UNCHANGED << queue_vars, db_vars >>
    /\ UNCHANGED << clock, redis_remaining, contenders, config, start_time, task_schedules,
                    schedule, time_to_sleep, wake, latest_remaining_requests, i,
                    issued, issued_late >>

\* _update_redis_remaining_requests
update_redis_remaining_requests_less_one(t, remaining_requests) ==
    redis_remaining' = [redis_remaining EXCEPT ![t] = << remaining_requests - 1 >>]

update_redis_remaining_requests(t, remaining_requests) ==
    redis_remaining' = [redis_remaining EXCEPT ![t] = << remaining_requests >>]

\* for schedule in task_schedules: await _update_redis_remaining_requests(...)
InitCounter(n) ==
    /\ pc[n] = "init_counters"
    /\ init_pos[n] <= Len(task_schedules[n])
    /\ LET s == task_schedules[n][init_pos[n]]
       IN  update_redis_remaining_requests(s.task, s.total_requests)
    /\ IF init_pos[n] = Len(task_schedules[n])
       THEN /\ pc' = [pc EXCEPT ![n] = "loop"]
            /\ init_pos' = [init_pos EXCEPT ![n] = 0]
       ELSE /\ init_pos' = [init_pos EXCEPT ![n] = init_pos[n] + 1]
            /\ UNCHANGED pc
    /\ UNCHANGED << queue_vars, db_vars >>
    /\ UNCHANGED << clock, queue, contenders, config, start_time, task_schedules, schedule,
                    time_to_sleep, wake, latest_remaining_requests, i, all_items,
                    issued, issued_late >>

\* leaving the while loop: drain what is left, then await asyncio.sleep(10)
LeaveLoop(n) ==
    /\ pc' = [pc EXCEPT ![n] = "breath"]
    /\ task_schedules' = [task_schedules EXCEPT ![n] = <<>>]
    /\ schedule' = [schedule EXCEPT ![n] = <<>>]
    /\ wake' = [wake EXCEPT ![n] = clock + final_sleep]

\* the elapsed-time test made before a wait
WaitTooLongNoElapsed(n, wait) == wait > scoring_period_time

WaitTooLong(n, wait) == clock - start_time[n] + wait > scoring_period_time

\* while task_schedules: heappop, time_to_sleep, the cutoff before sleeping
Pop(n) ==
    /\ pc[n] = "loop"
    /\ IF task_schedules[n] = <<>>
       THEN /\ LeaveLoop(n)
            /\ UNCHANGED << i, time_to_sleep >>
       ELSE LET r == heappop(task_schedules[n])
                wait == r[1].next_schedule_time - clock
            IN  /\ i' = [i EXCEPT ![n] = i[n] + 1]
                /\ IF wait > 0
                   THEN IF WaitTooLong(n, wait)
                        THEN /\ LeaveLoop(n)
                             /\ UNCHANGED time_to_sleep
                        ELSE /\ pc' = [pc EXCEPT ![n] = "sleep"]
                             /\ task_schedules' = [task_schedules EXCEPT ![n] = r[2]]
                             /\ schedule' = [schedule EXCEPT ![n] = << r[1] >>]
                             /\ time_to_sleep' = [time_to_sleep EXCEPT ![n] = wait]
                             /\ wake' = [wake EXCEPT ![n] = clock + Min(sleep_chunk, wait)]
                   ELSE /\ pc' = [pc EXCEPT ![n] = "read"]
                        /\ task_schedules' = [task_schedules EXCEPT ![n] = r[2]]
                        /\ schedule' = [schedule EXCEPT ![n] = << r[1] >>]
                        /\ UNCHANGED << time_to_sleep, wake >>
    /\ UNCHANGED << queue_vars, db_vars >>
    /\ UNCHANGED << clock, redis_remaining, queue, contenders, config, start_time,
                    latest_remaining_requests, all_items, init_pos, issued, issued_late >>

\* time_to_sleep -= sleep_chunk
SleepLeftSame(t) == t

SleepLeft(t) == t - sleep_chunk

\* await asyncio.sleep(min(sleep_chunk, time_to_sleep)); time_to_sleep -= sleep_chunk
Sleep(n) ==
    /\ pc[n] = "sleep"
    /\ clock >= wake[n]
    /\ LET left == SleepLeft(time_to_sleep[n])
       IN  IF left > 0
           THEN /\ time_to_sleep' = [time_to_sleep EXCEPT ![n] = left]
                /\ wake' = [wake EXCEPT ![n] = clock + Min(sleep_chunk, left)]
                /\ UNCHANGED pc
           ELSE /\ time_to_sleep' = [time_to_sleep EXCEPT ![n] = 0]
                /\ pc' = [pc EXCEPT ![n] = "read"]
                /\ wake' = [wake EXCEPT ![n] = 0]
    /\ UNCHANGED << queue_vars, db_vars >>
    /\ UNCHANGED << clock, redis_remaining, queue, contenders, config, start_time, task_schedules,
                    schedule, latest_remaining_requests, i, all_items, init_pos,
                    issued, issued_late >>

\* if latest_remaining_requests <= 0
ExhaustedLessThanZero(latest) == latest < 0

Exhausted(latest) == latest <= 0

\* the drift correction of a popped schedule
SkippedOneInterval(s, latest) ==
    [s EXCEPT !.next_schedule_time = s.next_schedule_time + s.interval,
              !.remaining_requests = latest]

Skipped(s, latest) ==
    [s EXCEPT !.next_schedule_time = s.next_schedule_time
                                        + s.interval * (s.remaining_requests - latest),
              !.remaining_requests = latest]

\* latest_remaining_requests = await _get_redis_remaining_requests(...), and the
\* exhausted and drift branches
Read(n) ==
    /\ pc[n] = "read"
    /\ LET s == schedule[n][1]
           latest == get_redis_remaining_requests(s.task)
           requests_to_skip == s.remaining_requests - latest
       IN  IF Exhausted(latest)
           THEN /\ pc' = [pc EXCEPT ![n] = "loop"]
                /\ schedule' = [schedule EXCEPT ![n] = <<>>]
                /\ UNCHANGED << task_schedules, latest_remaining_requests >>
           ELSE IF requests_to_skip > 0
                THEN /\ task_schedules' = [task_schedules EXCEPT ![n] =
                                               heappush(task_schedules[n], Skipped(s, latest))]
                     /\ pc' = [pc EXCEPT ![n] = "loop"]
                     /\ schedule' = [schedule EXCEPT ![n] = <<>>]
                     /\ UNCHANGED latest_remaining_requests
                ELSE /\ latest_remaining_requests' =
                            [latest_remaining_requests EXCEPT ![n] = latest]
                     /\ pc' = [pc EXCEPT ![n] = "enqueue"]
                     /\ UNCHANGED << task_schedules, schedule >>
    /\ UNCHANGED << queue_vars, db_vars >>
    /\ UNCHANGED << clock, redis_remaining, queue, contenders, config, start_time, time_to_sleep,
                    wake, i, all_items, init_pos, issued, issued_late >>

\* await _schedule_synthetic_query(config.redis_db, schedule.task, max_len=100)
Enqueue(n) ==
    /\ pc[n] = "enqueue"
    /\ LET t == schedule[n][1].task
       IN  /\ queue' = add_synthetic_query_to_queue(queue, t, max_len)
           /\ issued' = [issued EXCEPT ![n][t] = issued[n][t] + 1]
    /\ issued_late' = [issued_late EXCEPT ![n] =
           issued_late[n] + (IF clock - start_time[n] > scoring_period_time THEN 1 ELSE 0)]
    /\ pc' = [pc EXCEPT ![n] = "write"]
    /\ UNCHANGED << queue_vars, db_vars >>
    /\ UNCHANGED << clock, redis_remaining, contenders, config, start_time, task_schedules,
                    schedule, time_to_sleep, wake, latest_remaining_requests, i,
                    all_items, init_pos >>

\* the popped schedule after a request was issued
IssuedNoDecrement(s, latest, now) ==
    [s EXCEPT !.next_schedule_time = now + s.interval,
              !.remaining_requests = latest]

Issued(s, latest, now) ==
    [s EXCEPT !.next_schedule_time = now + s.interval,
              !.remaining_requests = latest - 1]

\* the periodic status report: pop every schedule, push every schedule back
ReportWithoutPush(heap) == <<>>

Report(heap) == PushAll(<<>>, PopAll(heap))

\* the elapsed-time test made after a request was issued
PeriodOver(n) == clock - start_time[n] > scoring_period_time

\* await _update_redis_remaining_requests(...) and the rest of the iteration
Write(n) ==
    /\ pc[n] = "write"
    /\ LET s == Issued(schedule[n][1], latest_remaining_requests[n], clock)
           heap == IF s.remaining_requests > 0
                   THEN heappush(task_schedules[n], s) ELSE task_schedules[n]
       IN  /\ update_redis_remaining_requests(s.task, s.remaining_requests)
           /\ IF PeriodOver(n)
              THEN LeaveLoop(n)
              ELSE /\ pc' = [pc EXCEPT ![n] = "loop"]
                   /\ task_schedules' = [task_schedules EXCEPT ![n] =
                          IF i[n] % report_every = 0 THEN Report(heap) ELSE heap]
                   /\ schedule' = [schedule EXCEPT ![n] = <<>>]
                   /\ UNCHANGED wake
    /\ latest_remaining_requests' = [latest_remaining_requests EXCEPT ![n] = 0]
    /\ UNCHANGED << queue_vars, db_vars >>
    /\ UNCHANGED << clock, queue, contenders, config, start_time, time_to_sleep, i, all_items,
                    init_pos, issued, issued_late >>

\* the final await asyncio.sleep(10) returns, and with it the cycle
Return(n) ==
    /\ pc[n] = "breath"
    /\ clock >= wake[n]
    /\ pc' = [pc EXCEPT ![n] = "done"]
    /\ wake' = [wake EXCEPT ![n] = 0]
    /\ i' = [i EXCEPT ![n] = 0]
    /\ start_time' = [start_time EXCEPT ![n] = 0]
    /\ UNCHANGED << queue_vars, db_vars >>
    /\ UNCHANGED << clock, redis_remaining, queue, contenders, config, task_schedules,
                    schedule, time_to_sleep, latest_remaining_requests, all_items,
                    init_pos, issued, issued_late >>

\* The scheduler instances beside each other.  No other producer runs here,
\* so the work queue holds synthetic jobs only and a purge has nothing to
\* push back: SpecPurge has the purge of a queue with other items.
Next ==
    \/ Tick
    \/ \E n \in Instances :
          \/ Start(n)
          \/ Load(n)
          \/ ClearLrange(n)
          \/ ClearDelete(n)
          \/ InitCounter(n)
          \/ Pop(n)
          \/ Sleep(n)
          \/ Read(n)
          \/ Enqueue(n)
          \/ Write(n)
          \/ Return(n)

vars == << sched_vars, queue_vars, db_vars >>

Spec == InitSched /\ [][Next]_vars

\* the steps of a cycle once it was called
Run(n) ==
    \/ Load(n)
    \/ ClearLrange(n)
    \/ ClearDelete(n)
    \/ InitCounter(n)
    \/ Pop(n)
    \/ Sleep(n)
    \/ Read(n)
    \/ Enqueue(n)
    \/ Write(n)
    \/ Return(n)

\* The clock advances, every store call returns and the event loop resumes a
\* coroutine whose await is over.
SpecFair ==
    /\ InitSched
    /\ [][Next]_vars
    /\ WF_vars(Tick)
    /\ \A n \in Instances : WF_vars(Run(n))

\* --------------------------------------------- the purge among others ----
\* every work queue of up to MaxQueueLen items; the k-th item has id k
InitialQueues ==
    UNION { { [k \in 1..len |-> Item(qt[k], "chat", k)] : qt \in [1..len -> QueryTypes] }
            : len \in 0..MaxQueueLen }

InitPurge ==
    /\ SchedulerIdle
    /\ RegistryEmpty
    /\ queue \in InitialQueues
    /\ queue0 = queue
    /\ contenders = SharedContenders
    /\ config = [scoring_period_time_multiplier |-> 1]

instance_vars == << clock, redis_remaining, contenders, config, pc, start_time,
                    task_schedules, schedule, time_to_sleep, wake,
                    latest_remaining_requests, i, all_items, init_pos, issued,
                    issued_late >>

\* another process (the organic entry point) pushes a job that is not synthetic
OrganicPush ==
    /\ Cardinality(pushed) < MaxPushes
    /\ LET item == Item(ORGANIC, "chat", Len(queue0) + Cardinality(pushed) + 1)
       IN  /\ queue' = Append(queue, item)
           /\ pushed' = pushed \cup {item}
    /\ UNCHANGED << instance_vars, db_vars, queue0, popped >>

\* the consumer of the work queue pops the job at its head
ConsumerPop ==
    /\ Cardinality(popped) < MaxPops
    /\ queue # <<>>
    /\ queue' = Tail(queue)
    /\ popped' = popped \cup {Head(queue)}
    /\ UNCHANGED << instance_vars, db_vars, queue0, pushed >>

Purger == "s1"

NextPurge ==
    \/ Start(Purger)
    \/ Load(Purger)
    \/ ClearLrange(Purger)
    \/ ClearDelete(Purger)
    \/ ClearRpush(Purger)
    \/ OrganicPush
    \/ ConsumerPop

SpecPurge == InitPurge /\ [][NextPurge]_vars

\* ------------------------------------------- one instance on its own ----
\* contender lists with two scheduled tasks, with tasks that get no request,
\* and one whose tasks get a single request each, or none, by the multiplier
SoloContenderLists ==
    { << Contender("chat", 10), Contender("image", 4), Contender("chat", 15),
         Contender("speech", 30), Contender("legacy", 30) >>,
      << Contender("image", 15), Contender("chat", 12) >>,
      << Contender("image", 4), Contender("chat", 5) >> }

\* Config.scoring_period_time_multiplier
Multipliers == {1, 2}

InitSolo ==
    /\ SchedulerIdle
    /\ RegistryEmpty
    /\ queue = <<>>
    /\ queue0 = queue
    /\ contenders \in SoloContenderLists
    /\ config \in [scoring_period_time_multiplier : Multipliers]

Solo == "s1"

\* one scheduler instance, no other writer of the shared counters
NextSolo ==
    \/ Tick
    \/ Start(Solo)
    \/ Load(Solo)
    \/ ClearLrange(Solo)
    \/ ClearDelete(Solo)
    \/ InitCounter(Solo)
    \/ Pop(Solo)
    \/ Sleep(Solo)
    \/ Read(Solo)
    \/ Enqueue(Solo)
    \/ Write(Solo)
    \/ Return(Solo)

SpecSolo == InitSolo /\ [][NextSolo]_vars

\* --------------------------------------- a cycle of a hundred iterations ----
\* chat gets 100 requests, less than a second apart, image gets 2
ReportContenders == << Contender("chat", 1000), Contender("image", 15) >>

InitReport ==
    /\ SchedulerIdle
    /\ RegistryEmpty
    /\ queue = <<>>
    /\ queue0 = queue
    /\ contenders = ReportContenders
    /\ config = [scoring_period_time_multiplier |-> 1]

\* one scheduler instance whose loop reaches the periodic status report
SpecReport == InitReport /\ [][NextSolo]_vars

\* ------------------------------------------------------ node registry ----
NULL == "NULL"

\* Fernet key material the nodes may establish, and its rotation identifiers
ValidKeys == {"K1", "K2"}

\* cryptography.fernet.Fernet(key): <<handle>>, or <<>> when it raises
Fernet(key) == IF key \in ValidKeys THEN << [signing_and_encryption_key |-> key] >> ELSE <<>>

\* futils.fernet_to_symmetric_key
fernet_to_symmetric_key(fernet) == fernet.signing_and_encryption_key

\* a Node as the chain sync hands it to insert_nodes: no fernet yet.  stake
\* stands for the metric and addressing columns, which are only carried along.
ChainNode(hotkey, node_id, netuid, stake) ==
    [hotkey |-> hotkey, node_id |-> node_id, netuid |-> netuid, stake |-> stake,
     fernet |-> <<>>, symmetric_key_uuid |-> NULL]

NETWORK == "finney"

\* the node lists of successive chain syncs
Batches ==
    { << ChainNode("h1", 0, 1, 5), ChainNode("h2", 1, 1, 7) >>,
      << ChainNode("h1", 0, 1, 6), ChainNode("h3", 0, 2, 7) >>,
      << ChainNode("h2", 1, 1, 7) >> }

\* nodes after the handshake, as insert_symmetric_keys_for_nodes gets them
KeyedNode(hotkey, netuid, fernet, uuid) ==
    [hotkey |-> hotkey, node_id |-> 0, netuid |-> netuid, stake |-> 0,
     fernet |-> fernet, symmetric_key_uuid |-> uuid]

HandshakeLists ==
    { << KeyedNode("h1", 1, Fernet("K1"), "U1"), KeyedNode("h2", 1, <<>>, NULL) >>,
      << KeyedNode("h2", 1, Fernet("K2"), "U2") >>,
      << KeyedNode("h3", 1, Fernet("K1"), "U1") >> }

\* the row insert_nodes writes for a node: symmetric_key is None, the columns
\* the statement does not name take their defaults
InsertedRow(node, network, now) ==
    [hotkey |-> node.hotkey, node_id |-> node.node_id, netuid |-> node.netuid,
     stake |-> node.stake, network |-> network, symmetric_key |-> NULL,
     symmetric_key_uuid |-> NULL, our_validator |-> FALSE, created_at |-> now]

\* the columns migrate_nodes_to_history selects
HistoryRow(row) ==
    [hotkey |-> row.hotkey, node_id |-> row.node_id, netuid |-> row.netuid,
     stake |-> row.stake, network |-> row.network, created_at |-> row.created_at]

\* migrate_nodes_to_history: INSERT INTO nodes_history ... SELECT ... FROM nodes
MigrateCopy(w) ==
    /\ sync_pc[w] = "idle"
    /\ syncs[w] < MaxSyncs
    /\ syncs' = [syncs EXCEPT ![w] = syncs[w] + 1]
    /\ nodes_history' = nodes_history \o [k \in 1..Len(nodes) |-> HistoryRow(nodes[k])]
    /\ sync_pc' = [sync_pc EXCEPT ![w] = "copied"]
    /\ UNCHANGED << sched_vars, queue_vars, vali_vars, nodes, db_time, inserted, get_node_result >>

\* migrate_nodes_to_history: DELETE FROM nodes
MigrateDeleteOmitted(w) ==
    /\ sync_pc[w] = "copied"
    /\ sync_pc' = [sync_pc EXCEPT ![w] = "migrated"]
    /\ UNCHANGED << sched_vars, queue_vars, vali_vars, nodes, nodes_history, db_time, syncs,
                    inserted, get_node_result >>

MigrateDelete(w) ==
    /\ sync_pc[w] = "copied"
    /\ nodes' = <<>>
    /\ sync_pc' = [sync_pc EXCEPT ![w] = "migrated"]
    /\ UNCHANGED << sched_vars, queue_vars, vali_vars, nodes_history, db_time, syncs, inserted,
                    get_node_result >>

\* insert_nodes
InsertNodes(w) ==
    /\ sync_pc[w] = "migrated"
    /\ \E batch \in Batches :
          LET rows == [k \in 1..Len(batch) |-> InsertedRow(batch[k], NETWORK, db_time)]
          IN  /\ nodes' = nodes \o rows
              /\ inserted' = Append(inserted, rows)
    /\ db_time' = db_time + 1
    /\ sync_pc' = [sync_pc EXCEPT ![w] = "idle"]
    /\ UNCHANGED << sched_vars, queue_vars, vali_vars, nodes_history, syncs, get_node_result >>

\* one UPDATE of insert_symmetric_keys_for_nodes
KeyUpdate(table, node) ==
    [k \in 1..Len(table) |->
        IF table[k].hotkey = node.hotkey /\ table[k].netuid = node.netuid
        THEN [table[k] EXCEPT !.symmetric_key = fernet_to_symmetric_key(node.fernet[1]),
                              !.symmetric_key_uuid = node.symmetric_key_uuid]
        ELSE table[k]]

RECURSIVE KeyUpdates(_, _)
KeyUpdates(table, list) ==
    IF list = <<>> THEN table
    ELSE KeyUpdates(IF Head(list).fernet # <<>> THEN KeyUpdate(table, Head(list)) ELSE table,
                    Tail(list))

\* insert_symmetric_keys_for_nodes
InsertSymmetricKeys ==
    /\ nodes # <<>>
    /\ \E list \in HandshakeLists : nodes' = KeyUpdates(nodes, list)
    /\ nodes' # nodes
    /\ UNCHANGED << sched_vars, queue_vars, vali_vars, nodes_history, db_time, sync_pc, syncs,
                    inserted, get_node_result >>

NodeIds == {0, 1}
Netuids == {1, 2}

\* the rows get_node's query matches
Matching(node_id, netuid) ==
    { k \in 1..Len(nodes) : nodes[k].node_id = node_id /\ nodes[k].netuid = netuid }

\* get_node: what it returns or raises for the row fetchone yields
GetNodeOutcomeAbsentWhenMissing(node_id, netuid, found) ==
    IF found = <<>> \/ Fernet(found[1].symmetric_key) = <<>>
    THEN [outcome |-> "None", node_id |-> node_id, netuid |-> netuid]
    ELSE [outcome |-> "Node", node_id |-> node_id, netuid |-> netuid,
          node |-> [hotkey |-> found[1].hotkey, node_id |-> found[1].node_id,
                    netuid |-> found[1].netuid, stake |-> found[1].stake,
                    symmetric_key_uuid |-> found[1].symmetric_key_uuid,
                    fernet |-> Fernet(found[1].symmetric_key)[1]]]

GetNodeOutcomeWithoutHandle(node_id, netuid, found) ==
    IF found = <<>>
    THEN [outcome |-> "ValueError", node_id |-> node_id, netuid |-> netuid]
    ELSE [outcome |-> "Node", node_id |-> node_id, netuid |-> netuid,
          node |-> [hotkey |-> found[1].hotkey, node_id |-> found[1].node_id,
                    netuid |-> found[1].netuid, stake |-> found[1].stake,
                    symmetric_key_uuid |-> found[1].symmetric_key_uuid,
                    fernet |-> IF Fernet(found[1].symmetric_key) = <<>>
                               THEN [signing_and_encryption_key |-> NULL]
                               ELSE Fernet(found[1].symmetric_key)[1]]]

GetNodeOutcome(node_id, netuid, found) ==
    IF found = <<>>
    THEN [outcome |-> "ValueError", node_id |-> node_id, netuid |-> netuid]
    ELSE IF Fernet(found[1].symmetric_key) = <<>>
         THEN [outcome |-> "None", node_id |-> node_id, netuid |-> netuid]
         ELSE [outcome |-> "Node", node_id |-> node_id, netuid |-> netuid,
               node |-> [hotkey |-> found[1].hotkey, node_id |-> found[1].node_id,
                         netuid |-> found[1].netuid, stake |-> found[1].stake,
                         symmetric_key_uuid |-> found[1].symmetric_key_uuid,
                         fernet |-> Fernet(found[1].symmetric_key)[1]]]

\* get_node
GetNode ==
    /\ get_node_result = NoResult
    /\ \E node_id \in NodeIds, netuid \in Netuids :
          \E found \in IF Matching(node_id, netuid) = {} THEN { <<>> }
                       ELSE { << nodes[k] >> : k \in Matching(node_id, netuid) } :
              get_node_result' = GetNodeOutcome(node_id, netuid, found)
    /\ UNCHANGED << sched_vars, queue_vars, vali_vars, nodes, nodes_history, db_time, sync_pc,
                    syncs, inserted >>

\* the caller has taken the result
TakeResult ==
    /\ get_node_result # NoResult
    /\ get_node_result' = NoResult
    /\ UNCHANGED << sched_vars, queue_vars, vali_vars, nodes, nodes_history, db_time, sync_pc,
                    syncs, inserted >>

InitNodes ==
    /\ SchedulerIdle
    /\ RegistryEmpty
    /\ queue = <<>>
    /\ queue0 = queue
    /\ contenders = SharedContenders
    /\ config = [scoring_period_time_multiplier |-> 1]

Syncer == "w1"

\* one writer runs the sync cycles, readers and the handshake go on beside it
NextNodes ==
    \/ MigrateCopy(Syncer)
    \/ MigrateDelete(Syncer)
    \/ InsertNodes(Syncer)
    \/ InsertSymmetricKeys
    \/ GetNode
    \/ TakeResult

SpecNodes == InitNodes /\ [][NextNodes]_vars

\* sync cycles all writers together have begun
TotalSyncs == syncs["w1"] + syncs["w2"]

\* a writer begins a sync cycle while others may be in theirs
SharedMigrateCopy(w) == TotalSyncs < MaxSyncs /\ MigrateCopy(w)

\* several writers run their sync cycles at once
NextNodesShared ==
    \/ \E w \in Writers :
          \/ SharedMigrateCopy(w)
          \/ MigrateDelete(w)
          \/ InsertNodes(w)
    \/ InsertSymmetricKeys
    \/ GetNode
    \/ TakeResult

SpecNodesShared == InitNodes /\ [][NextNodesShared]_vars

\* ------------------------------------------------ validator identity ----
\* the hotkeys update_our_vali_node_in_db is called with; no batch has "h9"
ValiHotkeys == {"h1", "h2", "h9"}

\* the rows the UPDATE of update_our_vali_node_in_db matches
OurValiRows(table, ss58_address, netuid) ==
    { k \in 1..Len(table) : table[k].hotkey = ss58_address /\ table[k].netuid = netuid }

\* update_our_vali_node_in_db: SET our_validator = true on the matching rows
FlagRows(table, ss58_address, netuid) ==
    [k \in 1..Len(table) |->
        IF k \in OurValiRows(table, ss58_address, netuid)
        THEN [table[k] EXCEPT !.our_validator = TRUE]
        ELSE table[k]]

\* update_our_vali_node_in_db; rows is the row count of the UPDATE
UpdateOurValiNodeInDb ==
    /\ our_vali.calls < MaxValiUpdates
    /\ \E ss58_address \in ValiHotkeys, netuid \in Netuids :
          /\ nodes' = FlagRows(nodes, ss58_address, netuid)
          /\ our_vali' = [calls |-> our_vali.calls + 1,
                          ss58_address |-> ss58_address,
                          netuid |-> netuid,
                          rows |-> Cardinality(OurValiRows(nodes, ss58_address, netuid))]
    /\ UNCHANGED << sched_vars, queue_vars, nodes_history, db_time, sync_pc, syncs,
                    inserted, get_node_result, vali_result, stakes_result >>

\* the rows the query of get_vali_ss58_address matches
FlaggedRows(table, netuid) ==
    { k \in 1..Len(table) : table[k].our_validator /\ table[k].netuid = netuid }

\* fetchone: any one of the matching rows (the query has no ORDER BY), or none
FetchOne(table, matching) ==
    IF matching = {} THEN { <<>> } ELSE { << table[k] >> : k \in matching }

\* get_vali_ss58_address: what it returns for the row fetchone yields
GetValiOutcomeEvenUnflagged(table, netuid, found) ==
    IF found = <<>>
    THEN IF table = <<>>
         THEN [outcome |-> "None", netuid |-> netuid]
         ELSE [outcome |-> "Hotkey", netuid |-> netuid, hotkey |-> table[1].hotkey]
    ELSE [outcome |-> "Hotkey", netuid |-> netuid, hotkey |-> found[1].hotkey]

GetValiOutcome(table, netuid, found) ==
    IF found = <<>>
    THEN [outcome |-> "None", netuid |-> netuid]
    ELSE [outcome |-> "Hotkey", netuid |-> netuid, hotkey |-> found[1].hotkey]

\* get_vali_ss58_address
GetValiSs58Address ==
    /\ vali_result = NoResult
    /\ \E netuid \in Netuids :
          \E found \in FetchOne(nodes, FlaggedRows(nodes, netuid)) :
              vali_result' = GetValiOutcome(nodes, netuid, found)
    /\ UNCHANGED << sched_vars, queue_vars, nodes, nodes_history, db_time, sync_pc,
                    syncs, inserted, get_node_result, our_vali, stakes_result >>

\* the rows the query of get_node_stakes selects, in storage order
AllRows(table, netuid) == table

SubnetRows(table, netuid) == SelectSeq(table, LAMBDA row : row.netuid = netuid)

\* hotkey_to_stake = {NODE[HOTKEY]: NODE[STAKE] for NODE in NODEs}
RECURSIVE hotkey_to_stake(_)
hotkey_to_stake(NODEs) ==
    IF NODEs = <<>> THEN [h \in {} |-> 0]
    ELSE LET d == hotkey_to_stake(SubSeq(NODEs, 1, Len(NODEs) - 1))
             NODE == NODEs[Len(NODEs)]
         IN  [h \in (DOMAIN d) \cup {NODE.hotkey} |->
                 IF h = NODE.hotkey THEN NODE.stake ELSE d[h]]

\* get_node_stakes
GetNodeStakes ==
    /\ stakes_result = NoResult
    /\ \E netuid \in Netuids :
          stakes_result' = [outcome |-> "Stakes", netuid |-> netuid,
                            stakes |-> hotkey_to_stake(SubnetRows(nodes, netuid))]
    /\ UNCHANGED << sched_vars, queue_vars, nodes, nodes_history, db_time, sync_pc,
                    syncs, inserted, get_node_result, our_vali, vali_result >>

\* the callers have taken the results
TakeValiResult ==
    /\ vali_result # NoResult
    /\ vali_result' = NoResult
    /\ UNCHANGED << sched_vars, queue_vars, nodes, nodes_history, db_time, sync_pc,
                    syncs, inserted, get_node_result, our_vali, stakes_result >>

TakeStakesResult ==
    /\ stakes_result # NoResult
    /\ stakes_result' = NoResult
    /\ UNCHANGED << sched_vars, queue_vars, nodes, nodes_history, db_time, sync_pc,
                    syncs, inserted, get_node_result, our_vali, vali_result >>

\* one writer runs the sync cycles; the validator marks itself and the
\* readers of the flag and of the stakes go on beside it
NextValidator ==
    \/ MigrateCopy(Syncer)
    \/ MigrateDelete(Syncer)
    \/ InsertNodes(Syncer)
    \/ UpdateOurValiNodeInDb
    \/ GetValiSs58Address
    \/ GetNodeStakes
    \/ TakeValiResult
    \/ TakeStakesResult

SpecValidator == InitNodes /\ [][NextValidator]_vars

\* ------------------------------------------------- scheduler properties ----
RECURSIVE SumOver(_, _)
SumOver(f, S) ==
    IF S = {} THEN 0
    ELSE LET x == CHOOSE y \in S : TRUE IN f[x] + SumOver(f, S \ {x})

\* jobs all instances together enqueued for task t
TotalIssued(t) == SumOver([n \in Instances |-> issued[n][t]], Instances)

\* tasks an instance still holds: on its priority queue or popped and in work
Held(n) ==
    { task_schedules[n][k].task : k \in 1..Len(task_schedules[n]) }
        \cup { schedule[n][k].task : k \in 1..Len(schedule[n]) }

\* instance n takes the step that follows its counter read
ReadStep(n) == pc[n] = "read" /\ pc'[n] # "read"

\* the value the shared store holds for the task instance n has popped
StoredRemaining(n) == redis_remaining[schedule[n][1].task]

\* C1: all instances together never enqueue more jobs for a task than the
\* task's computed total_requests.
C1_IssuedWithinBudget ==
    \A t \in Tasks : TotalIssued(t) <= calculate_task_requests(t, contenders)

\* C2: drift correction.  An iteration that reads a shared counter value
\* latest with 0 < latest < local remaining_requests enqueues nothing, leaves
\* the shared counter alone, sets the local remaining_requests to latest,
\* moves next_schedule_time on by interval * (remaining_requests - latest)
\* and puts the task back on the priority queue.
C2_DriftCorrection ==
    [][ \A n \in Instances :
          ( /\ ReadStep(n)
            /\ StoredRemaining(n) # <<>>
            /\ StoredRemaining(n)[1] > 0
            /\ schedule[n][1].remaining_requests > StoredRemaining(n)[1] )
          => LET s == schedule[n][1]
                 latest == StoredRemaining(n)[1]
             IN  /\ queue' = queue
                 /\ issued' = issued
                 /\ redis_remaining' = redis_remaining
                 /\ Len(task_schedules'[n]) = Len(task_schedules[n]) + 1
                 /\ \E k \in 1..Len(task_schedules'[n]) :
                       LET q == task_schedules'[n][k]
                       IN  /\ q.task = s.task
                           /\ q.remaining_requests = latest
                           /\ q.next_schedule_time = s.next_schedule_time
                                  + s.interval * (s.remaining_requests - latest)
                           /\ q.interval = s.interval
                           /\ q.total_requests = s.total_requests
                 /\ schedule'[n] = <<>>
                 /\ pc'[n] = "loop" ]_vars

\* C2 witness: an instance that issued nothing itself holds a schedule whose
\* remaining_requests a drift correction took down by two.
C2_DriftApplied ==
    \E n \in Instances : \E k \in 1..Len(task_schedules[n]) :
        LET s == task_schedules[n][k]
        IN  /\ pc[n] = "loop"
            /\ issued[n][s.task] = 0
            /\ s.remaining_requests = s.total_requests - 2
            /\ s.remaining_requests > 0
            /\ i[n] = 1

\* C3: exhaustion.  An iteration that reads a shared counter value <= 0 (or
\* no key) drops the task without requeuing it; a task an instance no longer
\* holds never comes back to its priority queue in the cycle, and the
\* instance enqueues no further job for it.
C3_Exhaustion ==
    [][ \A n \in Instances :
          /\ ( ReadStep(n) /\ (StoredRemaining(n) = <<>> \/ StoredRemaining(n)[1] <= 0) )
               => /\ pc'[n] = "loop"
                  /\ schedule'[n] = <<>>
                  /\ task_schedules'[n] = task_schedules[n]
                  /\ schedule[n][1].task \notin Held(n)'
                  /\ issued' = issued
                  /\ queue' = queue
          /\ \A t \in Tasks :
               ( pc[n] \in {"loop", "sleep", "read", "enqueue", "write", "breath"}
                 /\ t \notin Held(n) )
               => (t \notin Held(n)' /\ issued'[n][t] = issued[n][t]) ]_vars

\* C3 witness: an instance that is still in its loop has dropped a task it
\* never issued a job for -- the shared counter was exhausted by the others.
C3_DroppedExhausted ==
    \E n \in Instances : \E t \in ScheduledTasks(contenders) :
        /\ pc[n] = "loop"
        /\ t \notin Held(n)
        /\ issued[n][t] = 0
        /\ redis_remaining[t] = << 0 >>

\* instance n pops a schedule that is due wait seconds from now
PopsWithWait(n, wait) ==
    /\ pc[n] = "loop"
    /\ pc'[n] # "loop"
    /\ task_schedules[n] # <<>>
    /\ wait = heappop(task_schedules[n])[1].next_schedule_time - clock

\* the cutoff before a wait: a wait that would end after the scoring period
\* ends the loop, nothing is requeued and nothing is enqueued
CutoffBeforeWait ==
    \A n \in Instances : \A wait \in 1..(MaxClock + final_sleep) :
        ( PopsWithWait(n, wait) /\ clock - start_time[n] + wait > scoring_period_time )
        => /\ pc'[n] = "breath"
           /\ task_schedules'[n] = <<>>
           /\ schedule'[n] = <<>>
           /\ issued' = issued
           /\ queue' = queue

\* an instance never waits for a schedule time that lies after the period
WaitsEndWithinPeriod ==
    \A n \in Instances :
        pc[n] = "sleep" =>
            schedule[n][1].next_schedule_time - start_time[n] <= scoring_period_time

\* no job is enqueued while the elapsed cycle time exceeds the period
NoLateJobStep ==
    \A n \in Instances :
        issued'[n] # issued[n] => clock - start_time[n] <= scoring_period_time

\* C4 as stated: the cutoff before a wait, and no job is ever enqueued at a
\* moment when the elapsed cycle time already exceeds scoring_period_time.
C4_CycleBoundAsStated ==
    /\ []WaitsEndWithinPeriod
    /\ [][CutoffBeforeWait /\ NoLateJobStep]_vars

\* after a job enqueued late, the write that follows ends the loop
LateJobEndsLoop ==
    \A n \in Instances :
        ( pc[n] = "write" /\ pc'[n] # "write"
          /\ clock - start_time[n] > scoring_period_time )
        => pc'[n] = "breath" /\ task_schedules'[n] = <<>>

\* C4 (amended): the cycle never starts a wait that would end after the
\* scoring period -- it ends the loop instead, without requeuing and without
\* enqueueing; a task that is already due is issued without any elapsed-time
\* test, so a job can be enqueued after the period has elapsed, but at most
\* one per instance and cycle: the test after the issue step ends the loop.
C4_CycleBound ==
    /\ []WaitsEndWithinPeriod
    /\ [](\A n \in Instances : issued_late[n] <= 1)
    /\ [][CutoffBeforeWait /\ LateJobEndsLoop]_vars

\* C4 witness: an instance ended its loop at the cutoff before a wait: the
\* period has not elapsed, and the one job issued so far left requests over.
C4_CutOff ==
    \E n \in Instances : \E t \in ScheduledTasks(contenders) :
        /\ pc[n] = "breath"
        /\ clock - start_time[n] <= scoring_period_time
        /\ issued[n][t] = 1
        /\ TotalIssued(t) = 1
        /\ calculate_task_requests(t, contenders) > 1

\* ----------------------------------------------------- purge properties ----
Range(seq) == { seq[k] : k \in 1..Len(seq) }

\* the purge of the purging instance has run to its end
PurgeDone == pc[Purger] \in {"init_counters", "loop"}

\* C5: queue hygiene.  After a purge with no other queue activity the work
\* queue holds exactly the items of the original queue whose query_type is
\* not the synthetic discriminator, in their original relative order.
C5_QueueHygiene ==
    (PurgeDone /\ pushed = {} /\ popped = {})
    => /\ Range(queue) = { it \in Range(queue0) : it.query_type # SYNTHETIC }
       /\ \A j, k \in 1..Len(queue) : j < k => queue[j].id < queue[k].id

\* C5 witness: a purged queue that began as a mix, with a synthetic item
\* between two others, one of them without a query_type.
C5_MixedQueuePurged ==
    /\ PurgeDone /\ pushed = {} /\ popped = {}
    /\ Len(queue0) = 3
    /\ queue0[1].query_type = MISSING
    /\ queue0[2].query_type = SYNTHETIC
    /\ queue0[3].query_type = ORGANIC
    /\ Len(queue) = 2

\* C6: every item that is not synthetic and was in the queue at the start of
\* the purge or was pushed while it ran, and that no consumer popped, is in
\* the queue when the purge has finished.
C6_NonSyntheticSurvive ==
    PurgeDone =>
        \A it \in (Range(queue0) \cup pushed) \ popped :
            it.query_type # SYNTHETIC => it \in Range(queue)

\* -------------------------------------------------- registry properties ----
\* the columns that identify a row in both tables
Ident(row) == << row.hotkey, row.node_id, row.netuid, row.stake, row.network, row.created_at >>

Idents(table) == { Ident(table[k]) : k \in 1..Len(table) }

\* the rows of all batches inserted before the most recent one
EarlierIdents == UNION { Idents(inserted[j]) : j \in 1..(Len(inserted) - 1) }

RECURSIVE TotalLen(_)
TotalLen(seqs) == IF seqs = <<>> THEN 0 ELSE Len(Head(seqs)) + TotalLen(Tail(seqs))

\* C7: node archival.  After any number of sync cycles (migrate, then insert
\* a fresh batch) the live table holds exactly the rows of the most recent
\* batch and the history table exactly the rows of all earlier batches.
C7_NodeArchival ==
    (sync_pc[Syncer] = "idle" /\ inserted # <<>>)
    => LET last == inserted[Len(inserted)]
       IN  /\ Idents(nodes) = Idents(last)
           /\ Len(nodes) = Len(last)
           /\ Idents(nodes_history) = EarlierIdents
           /\ Len(nodes_history) = TotalLen(inserted) - Len(last)
           /\ Idents(nodes_history) \cap Idents(last) = {}

\* C7 witness: three sync cycles are done, two batches are archived.
C7_TwoBatchesArchived ==
    /\ sync_pc[Syncer] = "idle"
    /\ Len(inserted) = 3
    /\ Len(nodes_history) >= 3
    /\ nodes # <<>>

\* C8: every row the migration deletes from the live table is in the history
\* table afterwards, also when another writer inserts between the copy and
\* the delete.
C8_DeletedRowsArchived ==
    [][ \A w \in Writers :
          (sync_pc[w] = "copied" /\ sync_pc'[w] = "migrated")
          => Idents(nodes) \subseteq Idents(nodes_history') ]_vars

\* a get_node call returns or raises
GetNodeReturns == get_node_result = NoResult /\ get_node_result' # NoResult

\* the live rows with the node id and subnet a get_node result is for
RowsFor(r) ==
    { k \in 1..Len(nodes) : nodes[k].node_id = r.node_id /\ nodes[k].netuid = r.netuid }

\* C9: not-found contract.  get_node for a (node_id, netuid) pair that no
\* live row matches raises ValueError, it does not return an absent value,
\* and it changes no table.
C9_NotFound ==
    [][ GetNodeReturns =>
          /\ RowsFor(get_node_result') = {} => get_node_result'.outcome = "ValueError"
          /\ nodes' = nodes
          /\ nodes_history' = nodes_history ]_vars

\* C9 witness: get_node raised ValueError on a live table that has rows.
C9_RaisedNotFound ==
    /\ get_node_result # NoResult
    /\ get_node_result.outcome = "ValueError"
    /\ nodes # <<>>

\* C10: get_node returns absent, and raises nothing, when the matching row's
\* symmetric_key yields no encryption handle -- as the null key insert_nodes
\* writes for every row; it returns the node with its handle exactly when
\* the row exists and its key is valid.
C10_KeyHandling ==
    [][ /\ GetNodeReturns =>
             LET r == get_node_result'
             IN  /\ ( RowsFor(r) # {}
                      /\ \A k \in RowsFor(r) : nodes[k].symmetric_key \notin ValidKeys )
                    => r.outcome = "None"
                 /\ r.outcome = "Node"
                    <=> \E k \in RowsFor(r) : nodes[k].symmetric_key \in ValidKeys
                 /\ r.outcome = "Node"
                    => \E k \in RowsFor(r) :
                          /\ r.node.fernet.signing_and_encryption_key = nodes[k].symmetric_key
                          /\ r.node.hotkey = nodes[k].hotkey
                          /\ r.node.symmetric_key_uuid = nodes[k].symmetric_key_uuid
        /\ \A w \in Writers :
             (sync_pc[w] = "migrated" /\ sync_pc'[w] = "idle")
             => \A k \in (Len(nodes) + 1)..Len(nodes') : nodes'[k].symmetric_key = NULL ]_vars

\* C10 witness: get_node returned absent for a row that is there, its key
\* still the null key of insert_nodes, while another row has its key.
C10_AbsentForNullKey ==
    /\ get_node_result # NoResult
    /\ get_node_result.outcome = "None"
    /\ RowsFor(get_node_result) # {}
    /\ \A k \in RowsFor(get_node_result) : nodes[k].symmetric_key = NULL
    /\ \E k \in 1..Len(nodes) : nodes[k].symmetric_key \in ValidKeys

\* ------------------------------------------ validator identity properties ----
\* an update_our_vali_node_in_db call returns
UpdateReturns == our_vali'.calls = our_vali.calls + 1

\* C11: validator identity round trip.  After update_our_vali_node_in_db for
\* hotkey H on subnet N, with a live row for H on N, get_vali_ss58_address(N)
\* returns H whatever row its query yields.
C11_ValidatorRoundTrip ==
    [][ ( UpdateReturns /\ our_vali'.rows > 0 )
        => \A found \in FetchOne(nodes', FlaggedRows(nodes', our_vali'.netuid)) :
              GetValiOutcome(nodes', our_vali'.netuid, found)
                  = [outcome |-> "Hotkey", netuid |-> our_vali'.netuid,
                     hotkey |-> our_vali'.ss58_address] ]_vars

\* a get_node_stakes call returns
GetNodeStakesReturns == stakes_result = NoResult /\ stakes_result' # NoResult

\* C12: stake mapping.  For a live table that is not empty, get_node_stakes(N)
\* returns a mapping with exactly the hotkeys of the live rows of subnet N,
\* each mapped to the stake of its row; a hotkey that has rows on other
\* subnets only has no entry.
C12_StakeMapping ==
    [][ ( GetNodeStakesReturns /\ nodes # <<>> )
        => LET r == stakes_result'
               rows == { k \in 1..Len(nodes) : nodes[k].netuid = r.netuid }
           IN  /\ DOMAIN r.stakes = { nodes[k].hotkey : k \in rows }
               /\ \A k \in rows : r.stakes[nodes[k].hotkey] = nodes[k].stake
               /\ \A k \in 1..Len(nodes) :
                     ( \A j \in rows : nodes[j].hotkey # nodes[k].hotkey )
                     => nodes[k].hotkey \notin DOMAIN r.stakes
               /\ nodes' = nodes ]_vars

\* C12 witness: the stakes of subnet 1 were returned, one entry, while the
\* live table also has a row of another hotkey on subnet 2.
C12_StakesOfOneSubnet ==
    /\ stakes_result # NoResult
    /\ stakes_result.netuid = 1
    /\ Cardinality(DOMAIN stakes_result.stakes) = 1
    /\ Len(nodes) = 2
    /\ \E k \in 1..Len(nodes) :
          nodes[k].netuid = 2 /\ nodes[k].hotkey \notin DOMAIN stakes_result.stakes

\* a get_vali_ss58_address call returns
GetValiReturns == vali_result = NoResult /\ vali_result' # NoResult

\* C20: a sync cycle erases the validator flag.  insert_nodes leaves no live
\* row flagged; get_vali_ss58_address returns absent while no row of the
\* subnet is flagged; a row gets flagged only by update_our_vali_node_in_db
\* for a hotkey with a live row; the call for a hotkey with no live row
\* changes nothing.
C20_SyncErasesFlag ==
    [][ /\ \A w \in Writers :
             (sync_pc[w] = "migrated" /\ sync_pc'[w] = "idle")
             => \A k \in 1..Len(nodes') : ~nodes'[k].our_validator
        /\ GetValiReturns
             => ( FlaggedRows(nodes, vali_result'.netuid) = {}
                  => vali_result'.outcome = "None" )
        /\ ( \E netuid \in Netuids : FlaggedRows(nodes', netuid) # {} )
             => \/ \E netuid \in Netuids : FlaggedRows(nodes, netuid) # {}
                \/ UpdateReturns /\ our_vali'.rows > 0
        /\ ( UpdateReturns /\ our_vali'.rows = 0 ) => nodes' = nodes ]_vars

\* C20 witness: the last update_our_vali_node_in_db call flagged a row, a
\* sync cycle has run since, and get_vali_ss58_address returned absent for the
\* subnet although the hotkey is in the live table again.
C20_FlagErased ==
    /\ our_vali # NoCall
    /\ our_vali.rows > 0
    /\ sync_pc[Syncer] = "idle"
    /\ OurValiRows(nodes, our_vali.ss58_address, our_vali.netuid) # {}
    /\ FlaggedRows(nodes, our_vali.netuid) = {}
    /\ vali_result # NoResult
    /\ vali_result.outcome = "None"
    /\ vali_result.netuid = our_vali.netuid

\* ------------------------------------------------ issue step properties ----
\* instance n takes the step that follows its enqueue call
EnqueueStep(n) == pc[n] = "enqueue" /\ pc'[n] # "enqueue"

\* instance n takes the step that follows its counter write
WriteStep(n) == pc[n] = "write" /\ pc'[n] # "write"

\* C15: issue step.  An iteration that reads a shared counter value latest > 0
\* with local remaining_requests <= latest enqueues exactly one synthetic job
\* for the task, writes latest - 1 to the shared counter, sets the local
\* remaining_requests to latest - 1 and next_schedule_time to now + interval,
\* and requeues the task if and only if remaining_requests > 0 (the requeued
\* entry is on the priority queue when the loop goes on); total_requests and
\* interval keep their values.
C15_IssueStep ==
    [][ \A n \in Instances :
          /\ ( /\ ReadStep(n)
               /\ StoredRemaining(n) # <<>>
               /\ StoredRemaining(n)[1] > 0
               /\ schedule[n][1].remaining_requests <= StoredRemaining(n)[1] )
             => /\ pc'[n] = "enqueue"
                /\ latest_remaining_requests'[n] = StoredRemaining(n)[1]
                /\ schedule'[n] = schedule[n]
                /\ task_schedules'[n] = task_schedules[n]
                /\ queue' = queue
                /\ redis_remaining' = redis_remaining
          /\ EnqueueStep(n)
             => /\ pc'[n] = "write"
                /\ Len(queue') = Len(queue) + 1
                /\ SubSeq(queue', 1, Len(queue)) = queue
                /\ queue'[Len(queue')].query_type = SYNTHETIC
                /\ queue'[Len(queue')].task = schedule[n][1].task
                /\ issued'[n][schedule[n][1].task] = issued[n][schedule[n][1].task] + 1
                /\ redis_remaining' = redis_remaining
                /\ schedule'[n] = schedule[n]
          /\ WriteStep(n)
             => LET s == schedule[n][1]
                    latest == latest_remaining_requests[n]
                    after == [ task |-> s.task,
                               total_requests |-> s.total_requests,
                               interval |-> s.interval,
                               next_schedule_time |-> clock + s.interval,
                               remaining_requests |-> latest - 1 ]
                IN  /\ redis_remaining' = [redis_remaining EXCEPT ![s.task] = << latest - 1 >>]
                    /\ queue' = queue
                    /\ issued' = issued
                    /\ pc'[n] \in {"loop", "breath"}
                    /\ pc'[n] = "loop"
                         => IF latest - 1 > 0
                            THEN /\ Len(task_schedules'[n]) = Len(task_schedules[n]) + 1
                                 /\ \E k \in 1..Len(task_schedules'[n]) :
                                       task_schedules'[n][k] = after
                            ELSE /\ task_schedules'[n] = task_schedules[n]
                                 /\ s.task \notin Held(n)' ]_vars

\* C15 witness: an instance issued every request of a task itself; its last
\* issue wrote 0 to the shared counter and did not requeue the task.
C15_IssuedAllAlone ==
    \E n \in Instances : \E t \in ScheduledTasks(contenders) :
        /\ pc[n] = "loop"
        /\ issued[n][t] = calculate_task_requests(t, contenders)
        /\ TotalIssued(t) = issued[n][t]
        /\ t \notin Held(n)
        /\ redis_remaining[t] = << 0 >>

\* C19: the shared remaining-counter of a task, once written, is an integer
\* between 0 and the total_requests computed for the task; no instance ever
\* writes a negative value.
C19_CounterInRange ==
    \A t \in Tasks :
        redis_remaining[t] # <<>>
        => redis_remaining[t][1] \in 0..calculate_task_requests(t, contenders)

\* C19 witness: the instances together issued more jobs than total_requests
\* (an instance that started late set the counter back), the counter is at 0.
C19_ZeroAfterReset ==
    \E t \in ScheduledTasks(contenders) :
        /\ redis_remaining[t] = << 0 >>
        /\ TotalIssued(t) > calculate_task_requests(t, contenders)
        /\ \A n \in Instances : issued[n][t] > 0

\* ------------------------------------------------- one-instance properties ----
\* the schedule entries instance n holds
HeldEntries(n) ==
    { task_schedules[n][k] : k \in 1..Len(task_schedules[n]) }
        \cup { schedule[n][k] : k \in 1..Len(schedule[n]) }

\* the capacity of task t times the period multiplier
ScaledCapacity(t) == SumCapacity(contenders, t) * config.scoring_period_time_multiplier

\* task t has an enabled configuration and at least one request to get
GetsRequests(t) ==
    /\ t \in DOMAIN task_configs
    /\ task_configs[t].enabled
    /\ ScaledCapacity(t) >= task_configs[t].volume_to_requests_conversion

\* C13: volume computation.  The total_requests of every schedule entry is
\* floor(capacity * multiplier / volume_to_requests_conversion) of its task;
\* every task with an enabled configuration and a total above 0 gets an
\* entry; a task that is not registered, not enabled or has total 0 gets no
\* entry, no shared counter and no enqueued request.
C13_VolumeComputation ==
    \A n \in Instances : \A t \in Tasks :
        /\ \A e \in HeldEntries(n) :
              e.task = t
              => /\ GetsRequests(t)
                 /\ e.total_requests * task_configs[t].volume_to_requests_conversion
                        <= ScaledCapacity(t)
                 /\ ScaledCapacity(t)
                        < (e.total_requests + 1) * task_configs[t].volume_to_requests_conversion
        /\ ( pc[n] \in {"clear_lrange", "clear_delete", "init_counters"} /\ GetsRequests(t) )
              => \E e \in HeldEntries(n) : e.task = t
        /\ ~GetsRequests(t)
              => /\ t \notin Held(n)
                 /\ redis_remaining[t] = <<>>
                 /\ issued[n][t] = 0

\* C13 witness: a cycle that issued the requests of one task ends while the
\* contenders of a task with total 0, of a disabled task and of a task that
\* is not registered got nothing.
C13_OnlyChatScheduled ==
    /\ pc[Solo] = "breath"
    /\ issued[Solo]["chat"] = 2
    /\ SumCapacity(contenders, "image") > 0
    /\ SumCapacity(contenders, "speech") > 0
    /\ SumCapacity(contenders, "legacy") > 0
    /\ ~GetsRequests("image")
    /\ issued[Solo]["image"] = 0

\* C16: pacing.  A pop takes the entry with the smallest next_schedule_time
\* off the priority queue; an instance reads the counter and enqueues only
\* when the clock has reached the popped entry's next_schedule_time; a single
\* sleep lasts at most 2 seconds.
C16_Pacing ==
    /\ [](\A n \in Instances :
            /\ pc[n] \in {"read", "enqueue", "write"}
                 => clock >= schedule[n][1].next_schedule_time
            /\ pc[n] = "sleep" => wake[n] - clock <= 2)
    /\ [][ \A n \in Instances :
             ( pc[n] = "loop" /\ pc'[n] \in {"sleep", "read"} )
             => /\ schedule'[n][1] \in HeldEntries(n)
                /\ \A e \in HeldEntries(n) :
                      schedule'[n][1].next_schedule_time <= e.next_schedule_time
                /\ Len(task_schedules'[n]) = Len(task_schedules[n]) - 1 ]_vars

\* C16 witness: an instance is in a later sleep of a wait of more than 2
\* seconds -- the sleep ends after the entry's next_schedule_time -- while
\* another task is on its priority queue.
C16_LaterSleep ==
    /\ pc[Solo] = "sleep"
    /\ wake[Solo] > schedule[Solo][1].next_schedule_time
    /\ task_schedules[Solo] # <<>>

\* C18: one instance, no other writer.  At every counter read the shared
\* counter equals the popped entry's remaining_requests, so the drift path
\* is not taken; when the loop ends because the priority queue is empty, the
\* instance has issued exactly total_requests jobs for every scheduled task
\* and every such task's shared counter is 0.
C18_SoloInSync ==
    [][ /\ ReadStep(Solo)
             => /\ StoredRemaining(Solo) = << schedule[Solo][1].remaining_requests >>
                /\ pc'[Solo] = "enqueue"
        /\ ( pc[Solo] = "loop" /\ task_schedules[Solo] = <<>> /\ pc'[Solo] = "breath" )
             => \A t \in Tasks :
                   GetsRequests(t)
                   => /\ issued[Solo][t] = ScaledCapacity(t)
                                               \div task_configs[t].volume_to_requests_conversion
                      /\ redis_remaining[t] = << 0 >> ]_vars

\* C18 witness: the loop ended on an empty priority queue within the period,
\* two tasks got all their requests.
C18_AllIssued ==
    /\ pc[Solo] = "breath"
    /\ clock - start_time[Solo] <= scoring_period_time
    /\ Cardinality(ScheduledTasks(contenders)) = 2
    /\ \A t \in ScheduledTasks(contenders) :
          /\ issued[Solo][t] = calculate_task_requests(t, contenders)
          /\ redis_remaining[t] = << 0 >>

\* ------------------------------------------------------ report properties ----
\* heap is ordered as heapq keeps it: no entry is due before its parent
IsHeap(heap) ==
    \A k \in 2..Len(heap) :
        heap[k \div 2].next_schedule_time <= heap[k].next_schedule_time

\* C17: the periodic status report is non-destructive.  In an iteration whose
\* count is a multiple of 100 the priority queue holds, after the report, the
\* entries it held before the issue step and the requeued entry, with their
\* field values; the report changes no shared counter (the counter of the
\* issued task has the value the issue step wrote) and not the work queue;
\* the next pop returns an entry with the smallest next_schedule_time.
C17_ReportKeepsQueue ==
    [][ \A n \in Instances :
          ( WriteStep(n) /\ i[n] % 100 = 0 /\ pc'[n] = "loop" )
          => LET s == schedule[n][1]
                 latest == latest_remaining_requests[n]
                 after == [ task |-> s.task,
                            total_requests |-> s.total_requests,
                            interval |-> s.interval,
                            next_schedule_time |-> clock + s.interval,
                            remaining_requests |-> latest - 1 ]
                 requeued == IF latest - 1 > 0 THEN { after } ELSE {}
                 before == Range(task_schedules[n])
             IN  /\ Range(task_schedules'[n]) = before \cup requeued
                 /\ Len(task_schedules'[n]) = Len(task_schedules[n]) + Cardinality(requeued)
                 /\ redis_remaining' = [redis_remaining EXCEPT ![s.task] = << latest - 1 >>]
                 /\ queue' = queue
                 /\ IsHeap(task_schedules'[n])
                 /\ task_schedules'[n] # <<>>
                      => \A e \in Range(task_schedules'[n]) :
                            heappop(task_schedules'[n])[1].next_schedule_time
                                <= e.next_schedule_time ]_vars

\* C17 witness: the report of iteration 100 has run, the priority queue holds
\* two entries.
C17_ReportedTwo ==
    /\ pc[Solo] = "loop"
    /\ i[Solo] = 100
    /\ Len(task_schedules[Solo]) = 2

\* ------------------------------------------------- termination properties ----
\* C14: termination.  Every run of the scheduling cycle eventually leaves the
\* drain loop and returns, given that the clock advances and the store calls
\* return, whatever the other instance writes to the shared counters.
C14_Termination ==
    \A n \in Instances : (pc[n] \notin {"idle", "done"}) ~> (pc[n] = "done")

\* C14 witness: both instances, writing the same counters, have returned,
\* each after issuing a job.
C14_BothReturned ==
    /\ \A n \in Instances : pc[n] = "done"
    /\ \A n \in Instances : \E t \in Tasks : issued[n][t] > 0

====
